---- MODULE Spec2Model ----
(***************************************************************************)
(* Model of the assignment engine of schedulestremlit.py:                  *)
(*   select_optimised_leave  (leave resolver)                              *)
(*   generate_roster         (off-day pair allocator, daily allocator,     *)
(*                            summary)                                     *)
(*                                                                         *)
(* Dates are day numbers: day 0 is Monday 2024-12-30, so that d % 7 is     *)
(* Python's date.weekday() (0 = Monday .. 6 = Sunday) and 2025-01-01 is    *)
(* day 2.  Names are strings.  An empty DataFrame cell (NaN) is NaN.       *)
(***************************************************************************)
EXTENDS Integers, Sequences, FiniteSets, TLC

\* ---------------------------------------------------------------- bounds
MaxInterns == 3
MaxStart == 6
MaxDays == 9
MaxSpan == 18
MaxSeed == 1

\* ------------------------------------------------------------- constants
AllNames == <<"A", "B", "C", "D", "E">>

People == {AllNames[i] : i \in 1..MaxInterns}

NaN == "NaN"

SA_PUBLIC_HOLIDAYS_2025 == {2, 81, 109, 112, 118, 122, 168, 222, 268, 351, 360, 361}

VARIABLES
    pc,                 \* position in the program
    interns,            \* input: names in input order
    start_date,         \* input
    end_date,           \* input
    leave_preferences,  \* input of select_optimised_leave: name -> [first, second]
    mondays,            \* select_optimised_leave: week starts still to be visited
    final_leave,        \* select_optimised_leave: result list
    previous_summary,   \* input of generate_roster (no rows when None)
    leave_dates,        \* input of generate_roster
    shift_counts,       \* defaultdict: name -> [Cover, Late, FreeWeekends]
    leave_map,          \* name -> set of leave days
    off_day_pairs,      \* Saturdays of the off blocks still to be processed
    shifts,             \* date -> [Cover, Late]
    day,                \* next date of the daily loop
    summary,            \* result: name -> row
    run                 \* 1 for a first run, 2 for a run fed with a prior run's summary

vars == <<pc, interns, start_date, end_date, leave_preferences, mondays, final_leave,
          previous_summary, leave_dates, shift_counts, leave_map, off_day_pairs,
          shifts, day, summary, run>>

leaveVars == <<leave_preferences, mondays, final_leave>>

rosterVars == <<previous_summary, leave_dates, shift_counts, leave_map, off_day_pairs,
                shifts, day, summary, run>>

\* --------------------------------------------------------------- helpers
weekday(d) == d % 7

Range(s) == {s[i] : i \in DOMAIN s}

\* the rosters: names are interchangeable, so a roster of n people is the
\* first n names in that order
Rosters == {SubSeq(AllNames, 1, n) : n \in 1..MaxInterns}

EmptyMap == [x \in {} |-> 0]

\* pd.date_range(start, end - 4 days, freq='W-MON'), in chronological order
RECURSIVE MondaysFrom(_, _)
MondaysFrom(d, last) ==
    IF d > last THEN <<>>
    ELSE IF weekday(d) = 0 THEN <<d>> \o MondaysFrom(d + 7, last)
    ELSE MondaysFrom(d + 1, last)

\* d - timedelta(days=d.weekday())
MondayOf(d) == d - weekday(d)

\* [entry["name"] for entry in final_leave]
LeaveNames(fl) == {fl[i].name : i \in DOMAIN fl}

\* ------------------------------------------------- select_optimised_leave
\* Candidates without the test that skips a person who already has a week
RECURSIVE CandidatesNoSkip(_, _, _, _, _)
CandidatesNoSkip(names, prefs, fl, week_start, k) ==
    IF k > Len(names) THEN <<>>
    ELSE LET name == names[k]
             rest == CandidatesNoSkip(names, prefs, fl, week_start, k + 1)
         IN  IF MondayOf(prefs[name].first) = week_start
             THEN <<[name |-> name, choice |-> "First"]>> \o rest
             ELSE IF MondayOf(prefs[name].second) = week_start
                  THEN <<[name |-> name, choice |-> "Second"]>> \o rest
             ELSE rest

\* the candidates list of one week, in input order
RECURSIVE Candidates(_, _, _, _, _)
Candidates(names, prefs, fl, week_start, k) ==
    IF k > Len(names) THEN <<>>
    ELSE LET name == names[k]
             rest == Candidates(names, prefs, fl, week_start, k + 1)
         IN  IF name \in LeaveNames(fl) THEN rest
             ELSE IF MondayOf(prefs[name].first) = week_start
                  THEN <<[name |-> name, choice |-> "First"]>> \o rest
             ELSE IF MondayOf(prefs[name].second) = week_start
                  THEN <<[name |-> name, choice |-> "Second"]>> \o rest
             ELSE rest

\* [name for name in interns if name not in final_leave names]
Remaining(names, fl) == SelectSeq(names, LAMBDA n : n \notin LeaveNames(fl))

\* one iteration of "for week_start in mondays"
WeekResult(names, prefs, fl, week_start) ==
    LET candidates == Candidates(names, prefs, fl, week_start, 1)
        remaining == Remaining(names, fl)
    IN  IF candidates # <<>>
        THEN Append(fl, [name |-> candidates[1].name, start |-> week_start,
                         choice |-> candidates[1].choice])
        ELSE IF remaining # <<>>
        THEN Append(fl, [name |-> remaining[1], start |-> week_start,
                         choice |-> "Assigned"])
        ELSE fl

PrefDates == {2, 7, 16}

InitLeave ==
    /\ pc = "select"
    /\ interns \in Rosters
    /\ start_date \in 0..MaxStart
    /\ end_date \in start_date..(start_date + MaxSpan)
    /\ leave_preferences \in [Range(interns) -> [first : PrefDates, second : PrefDates]]
    /\ mondays = MondaysFrom(start_date, end_date - 4)
    /\ final_leave = <<>>
    /\ previous_summary = EmptyMap
    /\ leave_dates = <<>>
    /\ shift_counts = EmptyMap
    /\ leave_map = EmptyMap
    /\ off_day_pairs = {}
    /\ shifts = EmptyMap
    /\ day = 0
    /\ summary = EmptyMap
    /\ run = 1

SelectWeek ==
    /\ pc = "select"
    /\ mondays # <<>>
    /\ final_leave' = WeekResult(interns, leave_preferences, final_leave, Head(mondays))
    /\ mondays' = Tail(mondays)
    /\ UNCHANGED <<pc, interns, start_date, end_date, leave_preferences>>
    /\ UNCHANGED rosterVars

SelectReturn ==
    /\ pc = "select"
    /\ mondays = <<>>
    /\ pc' = "returned"
    /\ UNCHANGED <<interns, start_date, end_date, leaveVars>>
    /\ UNCHANGED rosterVars

NextLeave == SelectWeek \/ SelectReturn

SpecLeave == InitLeave /\ [][NextLeave]_vars

\* ------------------------------------------------------- generate_roster
ZeroCounts == [Cover |-> 0, Late |-> 0, FreeWeekends |-> 0]

\* shift_counts[i] of the defaultdict: a missing key reads as zeros
Count(sc, i) == IF i \in DOMAIN sc THEN sc[i] ELSE ZeroCounts

\* reading shift_counts[i] for every i of a list creates the missing keys
Touch(sc, names) ==
    [i \in DOMAIN sc \cup Range(names) |-> Count(sc, i)]

\* SeedCounts that drops the FreeWeekends column of the prior summary
SeedCountsNoFree(prev) ==
    [i \in DOMAIN prev |->
        [Cover |-> prev[i].Cover, Late |-> prev[i].Late, FreeWeekends |-> 0]]

\* shift_counts after the seeding loop over previous_summary.index
SeedCounts(prev) ==
    [i \in DOMAIN prev |->
        [Cover |-> prev[i].Cover,
         Late |-> prev[i].Late,
         FreeWeekends |-> IF "FreeWeekends" \in DOMAIN prev[i]
                          THEN prev[i].FreeWeekends ELSE 0]]

\* the 5 days of one leave entry
LeaveDays(entry) == {entry.start + i : i \in 0..4}

\* leave_map after the loop over leave_dates
LeaveMap(ld) ==
    [i \in People |-> UNION {LeaveDays(ld[k]) : k \in {j \in DOMAIN ld : ld[j].name = i}}]

DateRange(s, e) == s..e

\* off_day_candidates
OffDayCandidates(s, e) ==
    {d \in DateRange(s, e) : weekday(d) \in {5, 6}}
        \cup {d \in DateRange(s, e) : d \in SA_PUBLIC_HOLIDAYS_2025}

\* off_day_pairs, each pair (d, d+1) named by its first day d
OffDayPairs(s, e) ==
    {d \in OffDayCandidates(s, e) :
        weekday(d) = 5 /\ (d + 1) \in OffDayCandidates(s, e)}

\* the values of one row of shifts
RowValues(sh, d) == {sh[d].Cover, sh[d].Late}

\* the first element of seq with the least counter col: min(seq, key=...) and
\* sorted(seq, key=...)[0] (the sort is stable) both return it
RECURSIVE FirstMin(_, _, _, _, _)
FirstMin(seq, sc, col, k, best) ==
    IF k > Len(seq) THEN best
    ELSE FirstMin(seq, sc, col, k + 1,
                  IF Count(sc, seq[k])[col] < Count(sc, best)[col] THEN seq[k] ELSE best)

\* FreeInterns without the leave test
FreeInternsIgnoringLeave(names, sh, lm, d) ==
    SelectSeq(names, LAMBDA i : i \notin RowValues(sh, d) \cup RowValues(sh, d + 1))

\* free_interns of one off block
FreeInterns(names, sh, lm, d) ==
    SelectSeq(names, LAMBDA i :
        /\ i \notin RowValues(sh, d) \cup RowValues(sh, d + 1)
        /\ ~(d \in lm[i] \/ (d + 1) \in lm[i]))

\* Available without the test on the day's row
AvailableIgnoringRow(names, sh, lm, d) ==
    SelectSeq(names, LAMBDA i : d \notin lm[i])

\* available of one day
Available(names, sh, lm, d) ==
    SelectSeq(names, LAMBDA i : d \notin lm[i] /\ i \notin RowValues(sh, d))

\* PairChoice that takes the first free intern whatever the counters
PairChoiceFirst(free, sc) == free[1]

\* the intern chosen for an off block
PairChoice(free, sc) ==
    FirstMin(free, sc, "FreeWeekends", 2, free[1])

\* CoverChoice that takes the first available intern whatever the counters
CoverChoiceFirst(avail, sc) == avail[1]

CoverChoice(avail, sc) ==
    FirstMin(avail, sc, "Cover", 2, avail[1])

LateChoice(avail, sc) ==
    FirstMin(avail, sc, "Late", 2, avail[1])

\* Bump that adds 2
BumpTwice(sc, i, col) == [sc EXCEPT ![i][col] = @ + 2]

Bump(sc, i, col) == [sc EXCEPT ![i][col] = @ + 1]

\* next(entry["choice"] for entry in leave_entries if entry["name"] == name, "None")
LeaveChoice(ld, name) ==
    LET hits == {k \in DOMAIN ld : ld[k].name = name}
    IN  IF hits = {} THEN "None"
        ELSE ld[CHOOSE k \in hits : \A j \in hits : k <= j].choice

\* the summary table
Summary(sc, ld) ==
    [i \in DOMAIN sc |->
        [Cover |-> sc[i].Cover, Late |-> sc[i].Late, FreeWeekends |-> sc[i].FreeWeekends,
         LeaveChoice |-> LeaveChoice(ld, i),
         TotalHours |-> sc[i].Cover * 24 + sc[i].Late * 12]]

LeaveStarts == {3, 7}

LeaveChoices == {"First"}

LeaveEntries == [name : People, start : LeaveStarts, choice : LeaveChoices]

\* leave schedules of at most n entries: distinct people, chronological starts
LeaveSchedulesUpTo(n) ==
    {ld \in UNION {[1..m -> LeaveEntries] : m \in 0..n} :
        \A j, k \in DOMAIN ld : j < k => ld[j].name # ld[k].name /\ ld[j].start < ld[k].start}

LeaveSchedules == LeaveSchedulesUpTo(Cardinality(LeaveStarts))

\* seed counters are 0 or MaxSeed; the FreeWeekends column may be missing
SeedValues == {0, MaxSeed}

SeedRows ==
    [Cover : SeedValues, Late : SeedValues, FreeWeekends : SeedValues]
        \cup [Cover : SeedValues, Late : SeedValues]

\* the person of a prior summary: in every roster but the smallest
PriorPeople == {AllNames[2]}

\* prior summaries: no rows (None), or a row for one person
PriorSummaries ==
    {EmptyMap} \cup UNION {[{p} -> SeedRows] : p \in PriorPeople}

\* the call generate_roster(interns, start_date, end_date, previous_summary, leave_dates)
InitWith(priors, schedules) ==
    /\ pc = "start"
    /\ interns \in Rosters
    /\ start_date \in 0..MaxStart
    /\ end_date \in start_date..(start_date + MaxDays - 1)
    /\ leave_preferences = EmptyMap
    /\ mondays = <<>>
    /\ final_leave = <<>>
    /\ previous_summary \in priors
    /\ leave_dates \in schedules
    /\ shift_counts = EmptyMap
    /\ leave_map = EmptyMap
    /\ off_day_pairs = {}
    /\ shifts = EmptyMap
    /\ day = 0
    /\ summary = EmptyMap
    /\ run = 1

Init == InitWith(PriorSummaries, LeaveSchedules)

\* lines 45-73: counters seeded, leave map built, off blocks found
Setup ==
    /\ pc = "start"
    /\ shift_counts' = SeedCounts(previous_summary)
    /\ leave_map' = LeaveMap(leave_dates)
    /\ off_day_pairs' = OffDayPairs(start_date, end_date)
    /\ shifts' = [d \in DateRange(start_date, end_date) |-> [Cover |-> NaN, Late |-> NaN]]
    /\ day' = start_date
    /\ pc' = "pairs"
    /\ UNCHANGED <<interns, start_date, end_date, leaveVars, previous_summary,
                   leave_dates, summary, run>>

\* one iteration of "for pair in off_day_pairs"; random.shuffle fixes the
\* order, which is modelled as any order
AllocatePair ==
    /\ pc = "pairs"
    /\ \E d \in off_day_pairs :
        LET free_interns == FreeInterns(interns, shifts, leave_map, d)
            touched == Touch(shift_counts, free_interns)
            intern == PairChoice(free_interns, shift_counts)
        IN  /\ off_day_pairs' = off_day_pairs \ {d}
            /\ IF free_interns # <<>>
               THEN /\ shift_counts' = Bump(touched, intern, "FreeWeekends")
                    /\ shifts' = [shifts EXCEPT ![d] = [Cover |-> intern, Late |-> intern],
                                                ![d + 1] = [Cover |-> intern, Late |-> intern]]
               ELSE UNCHANGED <<shift_counts, shifts>>
    /\ UNCHANGED <<pc, interns, start_date, end_date, leaveVars, previous_summary,
                   leave_dates, leave_map, day, summary, run>>

PairsDone ==
    /\ pc = "pairs"
    /\ off_day_pairs = {}
    /\ pc' = "daily"
    /\ UNCHANGED <<interns, start_date, end_date, leaveVars, rosterVars>>

\* one iteration of "for day in date_range"; sorted(available)[0] of an
\* empty list raises IndexError, which nothing catches
AllocateDay ==
    /\ pc = "daily"
    /\ day <= end_date
    /\ LET avail1 == Available(interns, shifts, leave_map, day)
           needCover == shifts[day].Cover = NaN
           crash1 == needCover /\ avail1 = <<>>
           cover_candidate == CoverChoice(avail1, shift_counts)
           sc1 == IF needCover /\ ~crash1
                  THEN Bump(Touch(shift_counts, avail1), cover_candidate, "Cover")
                  ELSE shift_counts
           sh1 == IF needCover /\ ~crash1
                  THEN [shifts EXCEPT ![day].Cover = cover_candidate]
                  ELSE shifts
           avail2 == Available(interns, sh1, leave_map, day)
           needLate == sh1[day].Late = NaN
           crash2 == needLate /\ avail2 = <<>>
           late_candidate == LateChoice(avail2, sc1)
           sc2 == IF needLate /\ ~crash2
                  THEN Bump(Touch(sc1, avail2), late_candidate, "Late")
                  ELSE sc1
           sh2 == IF needLate /\ ~crash2
                  THEN [sh1 EXCEPT ![day].Late = late_candidate]
                  ELSE sh1
       IN  IF crash1
           THEN /\ pc' = "crashed"
                /\ UNCHANGED <<shift_counts, shifts, day>>
           ELSE IF crash2
           THEN /\ pc' = "crashed"
                /\ shift_counts' = sc1
                /\ shifts' = sh1
                /\ UNCHANGED day
           ELSE /\ shift_counts' = sc2
                /\ shifts' = sh2
                /\ day' = day + 1
                /\ UNCHANGED pc
    /\ UNCHANGED <<interns, start_date, end_date, leaveVars, previous_summary,
                   leave_dates, leave_map, off_day_pairs, summary, run>>

\* lines 98-103: the summary is built and the three results are returned
Summarise ==
    /\ pc = "daily"
    /\ day > end_date
    /\ summary' = Summary(shift_counts, leave_dates)
    /\ pc' = "done"
    /\ UNCHANGED <<interns, start_date, end_date, leaveVars, previous_summary,
                   leave_dates, shift_counts, leave_map, off_day_pairs, shifts, day, run>>

Next == Setup \/ AllocatePair \/ PairsDone \/ AllocateDay \/ Summarise

Spec == Init /\ [][Next]_vars

\* ------------------------------------------- two runs, summary carried over
InitCarry == InitWith({EmptyMap}, {<<>>})

\* run 1 has returned; its summary is the previous_summary of a run over the
\* period that follows
SecondRun ==
    /\ pc = "done"
    /\ run = 1
    /\ run' = 2
    /\ pc' = "start"
    /\ previous_summary' = summary
    /\ interns' \in Rosters
    /\ start_date' = end_date + 1
    /\ end_date' \in start_date'..(start_date' + MaxDays - 1)
    /\ leave_dates' \in LeaveSchedulesUpTo(1)
    /\ UNCHANGED <<leaveVars, shift_counts, leave_map, off_day_pairs, shifts, day, summary>>

NextCarry == Next \/ SecondRun

SpecCarry == InitCarry /\ [][NextCarry]_vars

\* ------------------------------------------------------------ properties
\* the leave days of p according to the leave_dates input
OnLeave(p, d) ==
    \E k \in DOMAIN leave_dates :
        leave_dates[k].name = p /\ leave_dates[k].start <= d /\ d <= leave_dates[k].start + 4

\* the four slots of the off block starting on Saturday d all hold p
BlockHeldBy(d, p) ==
    /\ shifts[d].Cover = p /\ shifts[d].Late = p
    /\ shifts[d + 1].Cover = p /\ shifts[d + 1].Late = p

\* the date d belongs to an off block that one person holds entirely
InHeldBlock(d) ==
    \E b \in OffDayPairs(start_date, end_date) :
        d \in {b, b + 1} /\ \E p \in Range(interns) : BlockHeldBy(b, p)

\* number of Cover (Late) slots of the roster that hold p
CoverSlots(sh, p) == Cardinality({d \in DOMAIN sh : sh[d].Cover = p})

LateSlots(sh, p) == Cardinality({d \in DOMAIN sh : sh[d].Late = p})

\* number of Cover (Late) slots that hold p on a date where p does not hold
\* both slots: the slots filled by the daily allocator
DailyCoverSlots(sh, p) ==
    Cardinality({d \in DOMAIN sh : sh[d].Cover = p /\ sh[d].Late # p})

DailyLateSlots(sh, p) ==
    Cardinality({d \in DOMAIN sh : sh[d].Late = p /\ sh[d].Cover # p})

\* number of off blocks that p holds entirely
BlocksHeld(p) ==
    Cardinality({b \in OffDayPairs(start_date, end_date) : BlockHeldBy(b, p)})

\* the counters the run was seeded with
SeedOf(p) == Count(SeedCounts(previous_summary), p)

\* C1 (as stated): in the returned roster the Cover person differs from the
\* Late person on every date, off-block dates included.
C1_NoDoubleBooking ==
    pc = "done" => \A d \in DOMAIN shifts : shifts[d].Cover # shifts[d].Late

\* C1 (amended): in the returned roster the Cover person differs from the
\* Late person on every date, except on the two dates of an off block that
\* the pair allocator gave to one person, who then holds all four slots.
C1_NoDoubleBookingOutsideBlocks ==
    pc = "done" =>
        \A d \in DOMAIN shifts :
            /\ shifts[d].Cover # NaN
            /\ shifts[d].Late # NaN
            /\ shifts[d].Cover = shifts[d].Late => InHeldBlock(d)

C1_Witness ==
    /\ pc = "done"
    /\ \E d \in DOMAIN shifts : shifts[d].Cover = shifts[d].Late
    /\ \E d \in DOMAIN shifts : weekday(d) < 5 /\ shifts[d].Cover # shifts[d].Late
    /\ \E d \in DOMAIN shifts : weekday(d) = 6 /\ shifts[d].Cover # shifts[d].Late

\* C2: whoever holds the Cover or the Late slot of a date is not on leave
\* on that date, whichever allocator filled the slot.
C2_LeaveExclusion ==
    \A d \in DOMAIN shifts : \A p \in People :
        p \in RowValues(shifts, d) => ~OnLeave(p, d)

C2_Witness ==
    /\ pc = "done"
    /\ \E b \in OffDayPairs(start_date, end_date) :
        /\ \E p \in Range(interns) : OnLeave(p, b) /\ p = interns[1]
        /\ \E q \in Range(interns) : BlockHeldBy(b, q)
    /\ \E d \in DOMAIN shifts : \E p \in Range(interns) :
        weekday(d) < 5 /\ OnLeave(p, d)

\* C3: a run never aborts with an unhandled error: every date ends with
\* both slots filled or with a reported scheduling failure.
C3_NoUnhandledCrash ==
    pc # "crashed"

\* C4: no name appears in two entries of the leave list.
C4_AtMostOneLeave ==
    \A j, k \in DOMAIN final_leave :
        j # k => final_leave[j].name # final_leave[k].name

C4_Witness ==
    /\ pc = "returned"
    /\ Len(final_leave) = 3
    /\ \E k \in DOMAIN final_leave : final_leave[k].choice = "First"
    /\ \E k \in DOMAIN final_leave : final_leave[k].choice = "Second"
    /\ \E k \in DOMAIN final_leave : final_leave[k].choice = "Assigned"

\* C5 (as stated): at the end of the run each person's CoverCount minus its
\* seed is the number of Cover slots assigned to that person, and likewise
\* for LateCount.
C5_CountsEqualAssignments ==
    pc = "done" =>
        \A p \in People :
            /\ Count(shift_counts, p).Cover - SeedOf(p).Cover = CoverSlots(shifts, p)
            /\ Count(shift_counts, p).Late - SeedOf(p).Late = LateSlots(shifts, p)

\* C5 (amended): no CoverCount or LateCount ever decreases; a step of the
\* daily allocator raises a person's CoverCount (LateCount) by exactly the
\* number of Cover (Late) slots it assigns to that person, which is 0 or 1;
\* a step of the off-day pair allocator assigns slots and leaves every
\* CoverCount and LateCount unchanged.
C5_Step ==
    pc \in {"pairs", "daily"} =>
        \A p \in People :
            /\ Count(shift_counts', p).Cover >= Count(shift_counts, p).Cover
            /\ Count(shift_counts', p).Late >= Count(shift_counts, p).Late
            /\ pc = "daily" =>
                /\ Count(shift_counts', p).Cover - Count(shift_counts, p).Cover
                       = CoverSlots(shifts', p) - CoverSlots(shifts, p)
                /\ Count(shift_counts', p).Late - Count(shift_counts, p).Late
                       = LateSlots(shifts', p) - LateSlots(shifts, p)
                /\ CoverSlots(shifts', p) - CoverSlots(shifts, p) \in {0, 1}
                /\ LateSlots(shifts', p) - LateSlots(shifts, p) \in {0, 1}
            /\ pc = "pairs" =>
                /\ Count(shift_counts', p).Cover = Count(shift_counts, p).Cover
                /\ Count(shift_counts', p).Late = Count(shift_counts, p).Late

C5_MonotonicFairness == [][C5_Step]_vars

C5_Witness ==
    /\ pc = "done"
    /\ \E p \in Range(interns) :
        /\ BlocksHeld(p) > 0
        /\ Count(shift_counts, p).Cover - SeedOf(p).Cover > 0
        /\ Count(shift_counts, p).Late - SeedOf(p).Late > 0
        /\ SeedOf(p).Cover > 0

\* C6: with at least 2 people, no leave and no prior summary, the final
\* CoverCounts of any two people differ by at most 1, and every off block
\* of the range has its four slots held by one person.
C6_GreedyCoverBound ==
    (pc = "done" /\ Len(interns) >= 2 /\ Len(leave_dates) = 0
        /\ DOMAIN previous_summary = {}) =>
            /\ \A p, q \in Range(interns) :
                Count(shift_counts, p).Cover - Count(shift_counts, q).Cover <= 1
            /\ \A b \in OffDayPairs(start_date, end_date) :
                \E p \in Range(interns) : BlockHeldBy(b, p)

C6_Witness ==
    /\ pc = "done" /\ Len(interns) = 3 /\ Len(leave_dates) = 0
    /\ DOMAIN previous_summary = {}
    /\ OffDayPairs(start_date, end_date) # {}
    /\ \E p, q \in Range(interns) :
        Count(shift_counts, p).Cover = 2 /\ Count(shift_counts, q).Cover = 1

\* C7: at the end of a second run seeded with the first run's summary, each
\* counter of a person of that summary is the first run's final counter
\* plus the second run's own increments, and the counters of a person
\* absent from that summary are the second run's increments alone.
C7_CarryOver ==
    (run = 2 /\ pc = "done") =>
        \A p \in People :
            LET prior == IF p \in DOMAIN previous_summary
                         THEN previous_summary[p] ELSE ZeroCounts
            IN  /\ Count(shift_counts, p).Cover = prior.Cover + DailyCoverSlots(shifts, p)
                /\ Count(shift_counts, p).Late = prior.Late + DailyLateSlots(shifts, p)
                /\ Count(shift_counts, p).FreeWeekends = prior.FreeWeekends + BlocksHeld(p)

C7_Witness ==
    /\ run = 2 /\ pc = "done"
    /\ \E p \in DOMAIN previous_summary :
        /\ previous_summary[p].Cover > 0
        /\ previous_summary[p].FreeWeekends > 0
        /\ DailyCoverSlots(shifts, p) > 0
        /\ DailyLateSlots(shifts, p) > 0
    /\ \E r \in Range(interns) : BlocksHeld(r) > 0
    /\ \E q \in Range(interns) :
        q \notin DOMAIN previous_summary /\ Count(shift_counts, q).Cover > 0

\* C8: the summary has a row for every person of the input list and for no
\* one else.
C8_SummaryRows ==
    pc = "done" => DOMAIN summary = Range(interns)

\* C9: a week is never given as a second choice while a person not yet
\* assigned has that week as first choice.
C9_FirstBeatsSecond ==
    \A k \in DOMAIN final_leave :
        final_leave[k].choice = "Second" =>
            ~\E q \in Range(interns) :
                /\ q \notin LeaveNames(SubSeq(final_leave, 1, k - 1))
                /\ MondayOf(leave_preferences[q].first) = final_leave[k].start

\* C10: a step of the pair allocator on a block with a non-empty eligible
\* set gives the four slots to the eligible person with the least
\* FreeWeekends, the earliest in input order among the tied, raises that
\* person's FreeWeekends by 1 and changes nothing else.
C10_Step ==
    (pc = "pairs" /\ off_day_pairs' # off_day_pairs) =>
        \A b \in off_day_pairs \ off_day_pairs' :
            LET pos(p) == CHOOSE k \in DOMAIN interns : interns[k] = p
                fw(p) == Count(shift_counts, p).FreeWeekends
                eligible == {p \in Range(interns) :
                                /\ p \notin RowValues(shifts, b) \cup RowValues(shifts, b + 1)
                                /\ ~OnLeave(p, b) /\ ~OnLeave(p, b + 1)}
            IN  eligible # {} =>
                    \E p \in eligible :
                        /\ \A q \in eligible : fw(p) <= fw(q)
                        /\ \A q \in eligible : fw(q) = fw(p) => pos(p) <= pos(q)
                        /\ shifts' = [shifts EXCEPT ![b] = [Cover |-> p, Late |-> p],
                                                    ![b + 1] = [Cover |-> p, Late |-> p]]
                        /\ Count(shift_counts', p) =
                               [Count(shift_counts, p) EXCEPT !.FreeWeekends = @ + 1]
                        /\ \A q \in People \ {p} :
                               Count(shift_counts', q) = Count(shift_counts, q)

C10_OffBlockRule == [][C10_Step]_vars

C10_Witness ==
    /\ pc = "pairs"
    /\ Len(interns) = 3
    /\ \E b \in OffDayPairs(start_date, end_date) \ off_day_pairs :
        /\ BlockHeldBy(b, interns[3])
        /\ ~OnLeave(interns[1], b) /\ ~OnLeave(interns[1], b + 1)
        /\ ~OnLeave(interns[2], b) /\ ~OnLeave(interns[2], b + 1)

====
